---- MODULE Spec2Model ----
(***************************************************************************)
(* Model of toytools.batchrun.launch: ResourceManager (an asyncio.Queue of *)
(* tokens guarded by an asyncio.Lock) and Launcher (one coroutine per      *)
(* Task, gathered by Launcher._run under asyncio.run).                     *)
(*                                                                         *)
(* asyncio runs the coroutines on one thread: a coroutine runs without     *)
(* interruption from one suspension point to the next.  Each action below  *)
(* is one such run of one coroutine.  The suspension points of             *)
(* _launch_task are `await asyncio.sleep(1)` (launch.py:60),               *)
(* `await asyncio.create_subprocess_shell` (launch.py:183) and             *)
(* `await proc.wait()` (launch.py:192).  Lock.acquire on a free lock,      *)
(* Queue.get on a non-empty queue and Queue.put on an unbounded queue      *)
(* return without suspending.                                              *)
(*                                                                         *)
(* The older toytools.multirun.Launcher (one token per Job, a blocking     *)
(* Queue.get instead of polling) is modelled the same way, under its own   *)
(* specification LegacySpec.                                               *)
(***************************************************************************)
EXTENDS Integers, Sequences, FiniteSets, TLC

\* ---- bounds of the model ----
NumTasks == 2
MaxTokens == 3
MaxQuantity == 2
MaxCmdLen == 3
MaxCmdWords == 2
NumJobs == 3

Tasks == 1..NumTasks
NoTask == 0
None == "None"
ExitCodes == {0, 1}

\* launch.py:163  `if cost_time < 30`
FastExitThreshold == 30

\* the seconds a subprocess may take: just under the threshold, and on it
CostTimes == {FastExitThreshold - 1, FastExitThreshold}

\* What the caller put into a Task decides these: a prepare_fn that raises,
\* a cwd/command that create_subprocess_shell cannot spawn, or neither.
Behaviours == {"ok", "hook_raises", "spawn_fails"}

\* multirun.py:98-104  job_id is the position of the Job in `jobs`
Jobs == 0..(NumJobs - 1)

\* a Job whose cwd/command create_subprocess_shell can spawn, or cannot
JobBehaviours == {"ok", "spawn_fails"}

VARIABLES
    cuda_list,   \* Launcher.cuda_list: the caller's token list
    task,        \* the submitted Tasks: cuda_quantity and what the hook/spawn do
    resources,   \* ResourceManager._resources (FIFO asyncio.Queue)
    lockOwner,   \* ResourceManager._lock: the task holding it, or NoTask
    pc,          \* where each _launch_task coroutine is suspended
    items,       \* the local list `items` of each allocate() call
    returncode,  \* proc.returncode of each task's subprocess: <<>> (None) or <<rc>>
    status,      \* the value each _launch_task returned (and logged)
    reported,    \* number of status log lines (launch.py:162) per task
    runState,    \* Launcher.run: "running", "returned" or "raised"
    runResult,   \* what Launcher.run handed to its caller
    cost_time,   \* cost_time of each task, in whole seconds: <<>> or <<c>>
    end_quickly, \* whether the task wrote io_folder/END_QUICKLY
    task_env,    \* task.env of each Task: a reference to a mapping object
    env_store,   \* the mapping objects the Tasks' env fields refer to
    hook_calls,  \* how many times each task's prepare_fn was called
    spawn_env,   \* env given to create_subprocess_shell: <<>> or <<env>>
    proc_pid,    \* proc.pid of each task's subprocess: <<>> or <<pid>>
    full_description, \* the versions of full_description.json each task
                      \* wrote, oldest first; the last one is the file
    steps,       \* the steps each _launch_task has carried out, in order
    ctor,        \* arguments of a call Task(cmd=..., identifier=...)
    made,        \* the Task that call built: whether built, its identifier
    legacy_cuda_list, \* multirun.Launcher.cuda_list
    jobs,        \* multirun.Launcher.jobs: what the spawn of each Job does
    queue,       \* the asyncio.Queue of _async_launch
    job_status,  \* multirun.Launcher.job_status
    job_pc,      \* where each _async_run_job coroutine is suspended
    cuda,        \* the token each _async_run_job got and has not put back:
                 \* <<>> or <<c>>
    job_events,  \* what each _async_run_job has done to queue and job_status
    launchState  \* multirun.Launcher.launch: "running", "returned", "raised"

\* the construction of a Task, before any run
construction == <<ctor, made>>

\* what the tasks leave behind besides their status
outputs == <<cost_time, end_quickly, task_env, env_store, hook_calls,
             spawn_env, proc_pid, full_description>>

\* the state of batchrun.launch.Launcher and of the Task being constructed
launcher == <<cuda_list, task, resources, lockOwner, pc, items, returncode,
              status, reported, runState, runResult, outputs, steps,
              construction>>

\* the state of multirun.Launcher
legacy == <<legacy_cuda_list, jobs, queue, job_status, job_pc, cuda,
            job_events, launchState>>

vars == <<launcher, legacy>>

Min(a, b) == IF a < b THEN a ELSE b

SeqToSet(s) == {s[i] : i \in 1..Len(s)}

\* the token lists the caller may pass: [0, 1, ..., n-1]
TokenList(n) == [i \in 1..n |-> i - 1]

\* ---- Task ----
\* A string is a sequence of characters; a cmd is a string or a list of
\* strings; an identifier argument is None or a string.

RECURSIVE SeqsUpTo(_, _)
SeqsUpTo(S, n) ==
    IF n = 0 THEN {<<>>}
    ELSE LET shorter == SeqsUpTo(S, n - 1)
         IN  shorter \cup {Append(q, x) : q \in shorter, x \in S}

CmdInputs ==
    {[kind |-> "str", val |-> v] : v \in SeqsUpTo({"a", " "}, MaxCmdLen)}
    \cup {[kind |-> "list", val |-> v] :
             v \in SeqsUpTo({<<"a">>, <<"b", "c">>}, MaxCmdWords)}

IdentifierInputs ==
    {[kind |-> "none", val |-> <<>>]}
    \cup {[kind |-> "str", val |-> v] : v \in {<<>>, <<"j">>, <<"j", "1">>}}

\* str.split(): the maximal runs of non-blank characters
RECURSIVE Split(_, _)
Split(str, word) ==
    IF str = <<>> THEN (IF word = <<>> THEN <<>> ELSE <<word>>)
    ELSE IF Head(str) = " "
           THEN (IF word = <<>> THEN <<>> ELSE <<word>>) \o Split(Tail(str), <<>>)
           ELSE Split(Tail(str), Append(word, Head(str)))

\* " ".join(words)
RECURSIVE JoinWords(_)
JoinWords(words) ==
    IF words = <<>> THEN <<>>
    ELSE IF Len(words) = 1 THEN words[1]
    ELSE words[1] \o <<" ">> \o JoinWords(Tail(words))

\* launch.py:88-90  Task.cmd_str
CmdStr(cmd) ==
    JoinWords(IF cmd.kind = "str" THEN Split(cmd.val, <<>>) ELSE cmd.val)

\* str(identifier)
Str(arg) == IF arg.kind = "none" THEN <<"N", "o", "n", "e">> ELSE arg.val

\* launch.py:86  `self.identifier = str(identifier) or self.cmd_str()`
TaskIdentifier(arg, cmd) == IF Str(arg) # <<>> THEN Str(arg) ELSE CmdStr(cmd)

\* launch.py:68-86  Task.__init__
Build(c) == [built |-> TRUE, identifier |-> TaskIdentifier(c.identifier, c.cmd)]

NotBuilt == [built |-> FALSE, identifier |-> <<>>]

\* launch.py:204-210  the Tasks of the module's own example: cmd a list, no identifier
ExampleCtor ==
    [cmd |-> [kind |-> "list", val |-> <<<<"a">>, <<"b", "c">>>>],
     identifier |-> [kind |-> "none", val |-> <<>>]]

\* ---- environments ----
\* A string is a sequence of characters.

\* launch.py:19
CUDA_VISIBLE_DEVICES == "CUDA_VISIBLE_DEVICES"

\* str() of a token of TokenList
Digit(i) == <<ToString(i)>>

\* the mapping objects of the callers' Tasks: one without the selector
\* variable, one that already sets it
EnvRefs == {1, 2}
DeclaredEnvs ==
    [r \in EnvRefs |->
        IF r = 1 THEN [PATH |-> <<"/", "b">>]
                 ELSE [PATH |-> <<"/", "b">>, CUDA_VISIBLE_DEVICES |-> <<"7">>]]

\* which Tasks were built with which object: all with the same one, or the
\* first with one and the others sharing the second
EnvAssignments ==
    {[t \in Tasks |-> 1], [t \in Tasks |-> IF t = 1 THEN 1 ELSE 2]}

\* (variant of JoinComma: joins with blanks)
RECURSIVE JoinBlank(_)
JoinBlank(its) ==
    IF its = <<>> THEN <<>>
    ELSE IF Len(its) = 1 THEN Digit(its[1])
    ELSE Digit(its[1]) \o <<" ">> \o JoinBlank(Tail(its))

\* launch.py:120  `",".join(map(str, cuda_list))`
RECURSIVE JoinComma(_)
JoinComma(its) ==
    IF its = <<>> THEN <<>>
    ELSE IF Len(its) = 1 THEN Digit(its[1])
    ELSE Digit(its[1]) \o <<",">> \o JoinComma(Tail(its))

\* (variant of ComposeEnv: a selector the Task already declares is kept)
ComposeEnvSetDefault(declared, its) ==
    [k \in DOMAIN declared \cup {CUDA_VISIBLE_DEVICES} |->
        IF k \in DOMAIN declared THEN declared[k] ELSE JoinComma(its)]

\* launch.py:120-123  `env = deepcopy(task.env); env[CUDA_VISIBLE_DEVICES] = str(cuda)`
ComposeEnv(declared, its) ==
    [k \in DOMAIN declared \cup {CUDA_VISIBLE_DEVICES} |->
        IF k = CUDA_VISIBLE_DEVICES THEN JoinComma(its) ELSE declared[k]]

\* (variant of StoreAfterCompose: `env = task.env`, the selector is written
\* into the Task's own mapping)
StoreAfterComposeAliased(store, ref, its) ==
    [store EXCEPT ![ref] = ComposeEnv(store[ref], its)]

\* launch.py:122  deepcopy: the mapping the Task refers to is left as it is
StoreAfterCompose(store, ref, its) == store

\* ---- provenance record ----

\* the pid the operating system gives the subprocess of task t
PidOf(t) == 100 + t

\* launch.py:130-137  full_info as first written
PreRunInfo(env) ==
    [cmd_str |-> "cmd_str", cwd |-> "cwd", cmd_list |-> "cmd_list", env |-> env,
     host |-> "uname", launch_time |-> "localtime"]

\* (variant of WithPid: the pid is not recorded)
WithPidForgotten(info, pid) == info

\* launch.py:184  `full_info['pid'] = proc.pid`
WithPid(info, pid) == ("pid" :> pid) @@ info

\* launch.py:167  `full_info['end_time'] = time.localtime()`
WithEndTime(info) == ("end_time" :> "localtime") @@ info

Last(seq) == seq[Len(seq)]

\* ---- the steps of one _launch_task ----

\* launch.py:56-61  allocate() yields the tokens
GrantSteps == <<"tokens_granted">>

\* launch.py:124  `task.prepare_fn(*task.prepare_fn_args)`
HookSteps == <<"pre_hook">>

\* launch.py:138-143  full_description.json as first written
PreRunSteps == <<"pre_run_write">>

\* launch.py:183-191  create_subprocess_shell returned a process, then the
\* record is rewritten with its pid
SpawnSteps == <<"spawn", "pid_write">>

\* launch.py:192  `await proc.wait()` returns
ExitSteps == <<"exit">>

\* launch.py:168-173, 62-63  the record is rewritten with end_time, then
\* allocate() puts the tokens back
CompleteSteps == <<"post_run_write", "token_release">>

\* launch.py:117-174, 176-193, 52-63  the steps in the order of the code
StepOrder ==
    GrantSteps \o HookSteps \o PreRunSteps \o SpawnSteps \o ExitSteps
        \o CompleteSteps

\* (variant of PcAfterStatus: a failed subprocess is spawned again)
PcAfterStatusRetry(st) == IF st = "FAIL" THEN "spawning" ELSE "done"

\* launch.py:159-174  whatever the status, _launch_task returns it: there is
\* no loop around _run_single_process
PcAfterStatus(st) == "done"

\* ---- ResourceManager ----

\* (variant of Available: asks for one token more than will be taken)
AvailableStrict(pool, quantity) == Len(pool) > quantity

\* (variant of Available: tests for any token instead of `quantity` tokens)
AvailableAny(pool, quantity) == Len(pool) >= 1

\* launch.py:57  `if self._resources.qsize() >= quantity`
Available(pool, quantity) == Len(pool) >= quantity

\* (variant of LoopDone: an `if` in place of the `while`, one iteration only)
LoopDoneAfterOnce(its, quantity) == TRUE

\* launch.py:55  `while len(items) < quantity` is over
LoopDone(its, quantity) == Len(its) >= quantity

\* (variant of GetN: the last token handed out also stays in the queue)
GetNKeepLast(pool, n) ==
    LET k == Min(n, Len(pool))
    IN  [got |-> SubSeq(pool, 1, k), rest |-> IF k = 0 THEN pool ELSE SubSeq(pool, k, Len(pool))]

\* (variant of GetN: reads the tokens without removing them from the queue)
GetNPeek(pool, n) ==
    LET k == Min(n, Len(pool))
    IN  [got |-> SubSeq(pool, 1, k), rest |-> pool]

\* launch.py:58-59  `for _ in range(n): items.append(await self._resources.get())`
\* up to the first get() that finds the queue empty (Queue.get suspends there).
GetN(pool, n) ==
    LET k == Min(n, Len(pool))
    IN  [got |-> SubSeq(pool, 1, k), rest |-> SubSeq(pool, k + 1, Len(pool))]

\* (variant of PutAll: the loop skips the first item)
PutAllButFirst(pool, its) == pool \o (IF its = <<>> THEN <<>> ELSE Tail(its))

\* launch.py:62-63  `for item in items: await self._resources.put(item)`
PutAll(pool, its) == pool \o its

\* (variant of Classify: tests the truthiness of the code the wrong way round)
ClassifyTruthy(rc) == IF rc # 0 THEN "SUCCESS" ELSE "FAIL"

\* launch.py:159
Classify(rc) == IF rc = 0 THEN "SUCCESS" ELSE "FAIL"

\* (variant of WritesSentinel: the threshold itself counts as quick)
WritesSentinelAtThreshold(cost) == cost <= FastExitThreshold

\* launch.py:163  `if cost_time < 30:`
WritesSentinel(cost) == cost < FastExitThreshold

\* launch.py:108-110  run() discards the value of asyncio.run(...)
RunReturnValue(statuses) == None

\* no multirun.Launcher in use: no jobs to run, nothing launched
LegacyIdle ==
    /\ legacy_cuda_list = <<>>
    /\ jobs = [j \in Jobs |-> "ok"]
    /\ queue = <<>>
    /\ job_status = [j \in Jobs |-> "pending"]
    /\ job_pc = [j \in Jobs |-> "pending"]
    /\ cuda = [j \in Jobs |-> <<>>]
    /\ job_events = [j \in Jobs |-> <<>>]
    /\ launchState = "not_launched"

Init ==
    /\ cuda_list \in {TokenList(n) : n \in 0..MaxTokens}
    /\ task \in [Tasks -> [cuda_quantity : 1..MaxQuantity, behaviour : Behaviours]]
    /\ resources = cuda_list
    /\ lockOwner = NoTask
    /\ pc = [t \in Tasks |-> "pending"]
    /\ items = [t \in Tasks |-> <<>>]
    /\ returncode = [t \in Tasks |-> <<>>]
    /\ status = [t \in Tasks |-> None]
    /\ reported = [t \in Tasks |-> 0]
    /\ runState = "running"
    /\ runResult = None
    /\ cost_time = [t \in Tasks |-> <<>>]
    /\ end_quickly = [t \in Tasks |-> FALSE]
    /\ task_env \in EnvAssignments
    /\ env_store = DeclaredEnvs
    /\ hook_calls = [t \in Tasks |-> 0]
    /\ spawn_env = [t \in Tasks |-> <<>>]
    /\ proc_pid = [t \in Tasks |-> <<>>]
    /\ full_description = [t \in Tasks |-> <<>>]
    /\ steps = [t \in Tasks |-> <<>>]
    /\ ctor = ExampleCtor
    /\ made = Build(ExampleCtor)
    /\ LegacyIdle

\* The n remaining get() calls of the for loop, then release of the lock and
\* sleep(1); or suspension inside get() with the lock still held.
TakeTokens(t, n) ==
    LET r == GetN(resources, n)
    IN  /\ resources' = r.rest
        /\ items' = [items EXCEPT ![t] = @ \o r.got]
        /\ IF Len(r.got) < n
             THEN /\ pc' = [pc EXCEPT ![t] = "get_wait"]
                  /\ lockOwner' = t
                  /\ UNCHANGED steps
             ELSE /\ pc' = [pc EXCEPT ![t] = "sleep"]
                  /\ lockOwner' = NoTask
                  /\ steps' = [steps EXCEPT ![t] = @ \o GrantSteps]

\* launch.py:55-60  one iteration of the while loop of allocate()
AllocateIteration(t) ==
    IF Available(resources, task[t].cuda_quantity)
      THEN TakeTokens(t, task[t].cuda_quantity)
      ELSE /\ pc' = [pc EXCEPT ![t] = "sleep"]
           /\ UNCHANGED <<resources, items, lockOwner, steps>>

\* launch.py:114-115  gather schedules the coroutines in the order of `tasks`;
\* the event loop runs the first step of each, in that order, before any timer
\* or subprocess event.
AllStarted == \A t \in Tasks : pc[t] # "pending"

\* The coroutine starts: enters allocate() and runs the first iteration.
Start(t) ==
    /\ runState = "running"
    /\ pc[t] = "pending"
    /\ \A u \in Tasks : u < t => pc[u] # "pending"
    /\ lockOwner = NoTask
    /\ AllocateIteration(t)
    /\ UNCHANGED <<legacy, construction, cuda_list, task, returncode, status, reported, runState, runResult, outputs>>

\* The coroutine resumes inside allocate() still short of tokens: after
\* sleep(1) it runs another iteration; woken inside get() it goes on taking.
Retry(t) ==
    /\ runState = "running"
    /\ AllStarted
    /\ \/ /\ pc[t] = "sleep"
          /\ ~LoopDone(items[t], task[t].cuda_quantity)
          /\ lockOwner = NoTask
          /\ AllocateIteration(t)
       \/ /\ pc[t] = "get_wait"
          /\ resources # <<>>
          /\ TakeTokens(t, task[t].cuda_quantity - Len(items[t]))
    /\ UNCHANGED <<legacy, construction, cuda_list, task, returncode, status, reported, runState, runResult, outputs>>

\* launch.py:61, 119-158, 178-183  after sleep(1) the loop ends, allocate
\* yields, the body runs prepare_fn, writes the pre-run files and awaits
\* create_subprocess_shell.  An exception of prepare_fn leaves allocate()
\* at its yield: the lines after the yield (62-63) do not run.
Enter(t) ==
    /\ runState = "running"
    /\ AllStarted
    /\ pc[t] = "sleep"
    /\ LoopDone(items[t], task[t].cuda_quantity)
    /\ env_store' = StoreAfterCompose(env_store, task_env[t], items[t])
    /\ hook_calls' = [hook_calls EXCEPT ![t] = @ + 1]
    /\ IF task[t].behaviour = "hook_raises"
         THEN /\ pc' = [pc EXCEPT ![t] = "raised"]
              /\ steps' = [steps EXCEPT ![t] = @ \o HookSteps]
              /\ UNCHANGED <<spawn_env, full_description>>
         ELSE LET env == ComposeEnv(env_store[task_env[t]], items[t])
              IN  /\ pc' = [pc EXCEPT ![t] = "spawning"]
                  /\ full_description' =
                        [full_description EXCEPT ![t] = Append(@, PreRunInfo(env))]
                  /\ spawn_env' = [spawn_env EXCEPT ![t] = <<env>>]
                  /\ steps' = [steps EXCEPT ![t] = @ \o HookSteps \o PreRunSteps]
    /\ UNCHANGED <<legacy, construction, cuda_list, task, resources, lockOwner, items, returncode,
                   status, reported, runState, runResult,
                   cost_time, end_quickly, task_env, proc_pid>>

\* launch.py:183-192  create_subprocess_shell finishes: with a process, whose
\* pid is recorded before `await proc.wait()`, or with an exception.
Spawned(t) ==
    /\ runState = "running"
    /\ AllStarted
    /\ pc[t] = "spawning"
    /\ IF task[t].behaviour = "spawn_fails"
         THEN /\ pc' = [pc EXCEPT ![t] = "raised"]
              /\ UNCHANGED <<proc_pid, full_description, steps>>
         ELSE /\ pc' = [pc EXCEPT ![t] = "running"]
              /\ proc_pid' = [proc_pid EXCEPT ![t] = <<PidOf(t)>>]
              /\ full_description' =
                    [full_description EXCEPT
                        ![t] = Append(@, WithPid(Last(@), PidOf(t)))]
              /\ steps' = [steps EXCEPT ![t] = @ \o SpawnSteps]
    /\ UNCHANGED <<legacy, construction, cuda_list, task, resources, lockOwner, items, returncode,
                   status, reported, runState, runResult,
                   cost_time, end_quickly, task_env, env_store, hook_calls,
                   spawn_env>>

\* The subprocess terminates; proc.wait() becomes ready.
ProcExit(t) ==
    /\ runState = "running"
    /\ AllStarted
    /\ pc[t] = "running"
    /\ \E rc \in ExitCodes : returncode' = [returncode EXCEPT ![t] = <<rc>>]
    /\ pc' = [pc EXCEPT ![t] = "exited"]
    /\ steps' = [steps EXCEPT ![t] = @ \o ExitSteps]
    /\ UNCHANGED <<legacy, construction, cuda_list, task, resources, lockOwner, items,
                   status, reported, runState, runResult, outputs>>

\* launch.py:159-174, 62-63  status, cost_time (the time since line 157, just
\* before the spawn), log line, END_QUICKLY, post-run files, return; then
\* allocate() resumes after its yield and puts the tokens back.
Complete(t) ==
    /\ runState = "running"
    /\ AllStarted
    /\ pc[t] = "exited"
    /\ status' = [status EXCEPT ![t] = Classify(returncode[t][1])]
    /\ reported' = [reported EXCEPT ![t] = @ + 1]
    /\ resources' = PutAll(resources, items[t])
    /\ items' = [items EXCEPT ![t] = <<>>]
    /\ pc' = [pc EXCEPT ![t] = PcAfterStatus(Classify(returncode[t][1]))]
    /\ steps' = [steps EXCEPT ![t] = @ \o CompleteSteps]
    /\ \E cost \in CostTimes :
          /\ cost_time' = [cost_time EXCEPT ![t] = <<cost>>]
          /\ end_quickly' = [end_quickly EXCEPT ![t] = WritesSentinel(cost)]
    /\ full_description' =
          [full_description EXCEPT ![t] = Append(@, WithEndTime(Last(@)))]
    /\ UNCHANGED <<legacy, construction, cuda_list, task, lockOwner, returncode, runState, runResult,
                   task_env, env_store, hook_calls, spawn_env, proc_pid>>

Ended(t) == pc[t] \in {"done", "raised", "cancelled"}

\* launch.py:115, 110  gather (return_exceptions=False) hands the first
\* exception to _run; asyncio.run cancels the tasks that are left and raises
\* to the caller of run().  A cancelled coroutine leaves allocate() at the
\* await or yield it is suspended in, as for any other exception.
RunAbort ==
    /\ runState = "running"
    /\ \E t \in Tasks : pc[t] = "raised"
    /\ pc' = [t \in Tasks |-> IF Ended(t) THEN pc[t] ELSE "cancelled"]
    /\ runState' = "raised"
    /\ UNCHANGED <<legacy, construction, cuda_list, task, resources, lockOwner, items, returncode,
                   status, reported, runResult, outputs, steps>>

\* launch.py:115, 110  every coroutine returned: gather, _run, asyncio.run
\* and run() return.
RunReturn ==
    /\ runState = "running"
    /\ \A t \in Tasks : pc[t] = "done"
    /\ runState' = "returned"
    /\ runResult' = RunReturnValue(status)
    /\ UNCHANGED <<legacy, construction, cuda_list, task, resources, lockOwner, pc, items, returncode,
                   status, reported, outputs, steps>>

Next ==
    \/ \E t \in Tasks : Start(t)
    \/ \E t \in Tasks : Retry(t)
    \/ \E t \in Tasks : Enter(t)
    \/ \E t \in Tasks : Spawned(t)
    \/ \E t \in Tasks : ProcExit(t)
    \/ \E t \in Tasks : Complete(t)
    \/ RunAbort
    \/ RunReturn

Spec == Init /\ [][Next]_vars

\* The event loop runs every coroutine that is ready, and the subprocesses
\* are taken to terminate.
Fairness ==
    /\ \A t \in Tasks : WF_vars(Start(t))
    /\ \A t \in Tasks : WF_vars(Retry(t))
    /\ \A t \in Tasks : WF_vars(Enter(t))
    /\ \A t \in Tasks : WF_vars(Spawned(t))
    /\ \A t \in Tasks : WF_vars(ProcExit(t))
    /\ \A t \in Tasks : WF_vars(Complete(t))
    /\ WF_vars(RunAbort)
    /\ WF_vars(RunReturn)

FairSpec == Spec /\ Fairness

\* ---- construction of a Task, on its own ----

\* a Launcher with no run going on: a pool of one token, the Tasks pending
LauncherIdle ==
    /\ cuda_list = TokenList(1)
    /\ task = [t \in Tasks |-> [cuda_quantity |-> 1, behaviour |-> "ok"]]
    /\ resources = cuda_list
    /\ lockOwner = NoTask
    /\ pc = [t \in Tasks |-> "pending"]
    /\ items = [t \in Tasks |-> <<>>]
    /\ returncode = [t \in Tasks |-> <<>>]
    /\ status = [t \in Tasks |-> None]
    /\ reported = [t \in Tasks |-> 0]
    /\ runState = "running"
    /\ runResult = None
    /\ cost_time = [t \in Tasks |-> <<>>]
    /\ end_quickly = [t \in Tasks |-> FALSE]
    /\ task_env = [t \in Tasks |-> 1]
    /\ env_store = DeclaredEnvs
    /\ hook_calls = [t \in Tasks |-> 0]
    /\ spawn_env = [t \in Tasks |-> <<>>]
    /\ proc_pid = [t \in Tasks |-> <<>>]
    /\ full_description = [t \in Tasks |-> <<>>]
    /\ steps = [t \in Tasks |-> <<>>]

TaskInit ==
    /\ ctor \in [cmd : CmdInputs, identifier : IdentifierInputs]
    /\ made = NotBuilt
    /\ LauncherIdle
    /\ LegacyIdle

\* launch.py:68-86  Task(cmd, cwd, io_folder, identifier)
Construct ==
    /\ ~made.built
    /\ made' = Build(ctor)
    /\ UNCHANGED <<legacy, ctor, cuda_list, task, resources, lockOwner, pc, items,
                   returncode, status, reported, runState, runResult, outputs,
                   steps>>

TaskNext == Construct

TaskSpec == TaskInit /\ [][TaskNext]_vars

\* ---- multirun.Launcher ----
\* Its suspension points are `await queue.get()` on an empty queue
\* (multirun.py:107), `await create_subprocess_shell` (132, 136) and
\* `await proc.wait()` (137).  self.lock is only held across statements that
\* do not suspend, so `async with self.lock` never waits.

\* (variant of QueueGet: the token is read and left in the queue)
QueueGetPeek(q) == [item |-> Head(q), rest |-> q]

\* multirun.py:107  `cuda = await queue.get()` on a queue that has a token
QueueGet(q) == [item |-> Head(q), rest |-> Tail(q)]

\* multirun.py:138-143  the status of a job whose subprocess exited with rc
FinalStatus(rc) == IF rc = 0 THEN "finished" ELSE "failed"

\* multirun.py:107-110, 144-146  the order in which one _async_run_job acts
\* on the queue and on job_status
JobEventOrder == <<"get", "status_running", "status_final", "put">>

\* multirun.py:84-85, 96-104  Launcher(jobs, cuda_list) and the start of
\* launch(): the queue filled from cuda_list, every job "pending"
LegacyInit ==
    /\ ctor = ExampleCtor
    /\ made = Build(ExampleCtor)
    /\ LauncherIdle
    /\ legacy_cuda_list \in {TokenList(n) : n \in 0..MaxTokens}
    /\ jobs \in [Jobs -> JobBehaviours]
    /\ queue = legacy_cuda_list
    /\ job_status = [j \in Jobs |-> "pending"]
    /\ job_pc = [j \in Jobs |-> "pending"]
    /\ cuda = [j \in Jobs |-> <<>>]
    /\ job_events = [j \in Jobs |-> <<>>]
    /\ launchState = "running"

\* multirun.py:107-132  get() returns a token; job_status becomes "running";
\* env and files are written; the coroutine awaits create_subprocess_shell
JobAcquire(j) ==
    LET r == QueueGet(queue)
    IN  /\ queue' = r.rest
        /\ cuda' = [cuda EXCEPT ![j] = <<r.item>>]
        /\ job_status' = [job_status EXCEPT ![j] = "running"]
        /\ job_pc' = [job_pc EXCEPT ![j] = "spawning"]
        /\ job_events' = [job_events EXCEPT ![j] = @ \o <<"get", "status_running">>]

\* multirun.py:104  gather starts the coroutines in the order of `jobs`; each
\* runs up to its first suspension: in get() when the queue is empty
JobStart(j) ==
    /\ launchState = "running"
    /\ job_pc[j] = "pending"
    /\ \A k \in Jobs : k < j => job_pc[k] # "pending"
    /\ IF queue # <<>>
         THEN JobAcquire(j)
         ELSE /\ job_pc' = [job_pc EXCEPT ![j] = "get_wait"]
              /\ UNCHANGED <<queue, cuda, job_status, job_events>>
    /\ UNCHANGED <<launcher, legacy_cuda_list, jobs, launchState>>

AllJobsStarted == \A j \in Jobs : job_pc[j] # "pending"

\* multirun.py:107  a put() wakes the getters in the order they began to
\* wait: the first waiting job resumes with the token
JobWake(j) ==
    /\ launchState = "running"
    /\ AllJobsStarted
    /\ job_pc[j] = "get_wait"
    /\ \A k \in Jobs : k < j => job_pc[k] # "get_wait"
    /\ queue # <<>>
    /\ JobAcquire(j)
    /\ UNCHANGED <<launcher, legacy_cuda_list, jobs, launchState>>

\* multirun.py:132-137  create_subprocess_shell finishes, with a process
\* (the coroutine then awaits proc.wait()) or with an exception
JobSpawned(j) ==
    /\ launchState = "running"
    /\ AllJobsStarted
    /\ job_pc[j] = "spawning"
    /\ job_pc' = [job_pc EXCEPT
                     ![j] = IF jobs[j] = "spawn_fails" THEN "raised" ELSE "waiting"]
    /\ UNCHANGED <<launcher, legacy_cuda_list, jobs, queue, job_status, cuda,
                   job_events, launchState>>

\* multirun.py:137-146  proc.wait() returns: the final status is stored,
\* then the token is put back, then the coroutine returns
JobFinish(j) ==
    /\ launchState = "running"
    /\ AllJobsStarted
    /\ job_pc[j] = "waiting"
    /\ \E rc \in ExitCodes :
          job_status' = [job_status EXCEPT ![j] = FinalStatus(rc)]
    /\ queue' = Append(queue, cuda[j][1])
    /\ cuda' = [cuda EXCEPT ![j] = <<>>]
    /\ job_events' = [job_events EXCEPT ![j] = @ \o <<"status_final", "put">>]
    /\ job_pc' = [job_pc EXCEPT ![j] = "done"]
    /\ UNCHANGED <<launcher, legacy_cuda_list, jobs, launchState>>

JobEnded(j) == job_pc[j] \in {"done", "raised", "cancelled"}

\* multirun.py:104, 91  gather hands the first exception to _async_launch;
\* asyncio.run cancels the coroutines that are left and raises out of
\* launch().  Nothing is put back and no status is changed on the way out.
LaunchAbort ==
    /\ launchState = "running"
    /\ \E j \in Jobs : job_pc[j] = "raised"
    /\ job_pc' = [j \in Jobs |-> IF JobEnded(j) THEN job_pc[j] ELSE "cancelled"]
    /\ launchState' = "raised"
    /\ UNCHANGED <<launcher, legacy_cuda_list, jobs, queue, job_status, cuda,
                   job_events>>

\* multirun.py:104, 91-94  every coroutine returned: launch() returns
LaunchReturn ==
    /\ launchState = "running"
    /\ \A j \in Jobs : job_pc[j] = "done"
    /\ launchState' = "returned"
    /\ UNCHANGED <<launcher, legacy_cuda_list, jobs, queue, job_status, job_pc,
                   cuda, job_events>>

LegacyNext ==
    \/ \E j \in Jobs : JobStart(j)
    \/ \E j \in Jobs : JobWake(j)
    \/ \E j \in Jobs : JobSpawned(j)
    \/ \E j \in Jobs : JobFinish(j)
    \/ LaunchAbort
    \/ LaunchReturn

LegacySpec == LegacyInit /\ [][LegacyNext]_vars

TypeOK ==
    /\ pc \in [Tasks -> {"pending", "sleep", "get_wait", "spawning", "running",
                         "exited", "done", "raised", "cancelled"}]
    /\ runState \in {"running", "returned", "raised"}
    /\ lockOwner \in Tasks \cup {NoTask}

\* ---- vocabulary of the properties ----

N == Len(cuda_list)
Tokens == SeqToSet(cuda_list)
Quantity(t) == task[t].cuda_quantity

\* granted and not yet finished
Active(t) == pc[t] \in {"sleep", "get_wait", "spawning", "running", "exited"}

\* inside allocate(), before its yield
InAllocate(t) == pc[t] \in {"sleep", "get_wait"}

\* past the yield of allocate(): the body of _launch_task has begun
PastAcquisition(t) == pc[t] \in {"spawning", "running", "exited", "raised"}

Holders(k) == {t \in Tasks : k \in SeqToSet(items[t])}

RECURSIVE SumLen(_)
SumLen(S) == IF S = {} THEN 0
             ELSE LET t == CHOOSE x \in S : TRUE IN Len(items[t]) + SumLen(S \ {t})

InFlight == SumLen(Tasks)

Reported(t) == status[t] \in {"SUCCESS", "FAIL"} /\ reported[t] = 1

\* ---- C1 ----
\* C1: the number of tokens granted and not yet released is at most N, and
\* no token is held by two executions at the same time.
C1_InFlightBounded ==
    /\ InFlight <= N
    /\ \A k \in Tokens : Cardinality(Holders(k)) <= 1

\* every token of a pool of at least two is in flight, spread over two executions
C1_Witness ==
    /\ N >= 2
    /\ InFlight = N
    /\ \E t, u \in Tasks : t # u /\ items[t] # <<>> /\ items[u] # <<>>

\* ---- C2 ----
\* C2: each token of the initial list is either in the pool or held by
\* exactly one execution that is still active, never both and never neither;
\* pool size plus tokens held by active executions equals N.
C2_TokenConservation ==
    /\ \A k \in Tokens :
         LET inPool == k \in SeqToSet(resources)
             holders == {t \in Holders(k) : Active(t)}
         IN  /\ inPool => holders = {}
             /\ ~inPool => Cardinality(holders) = 1
    /\ Len(resources) + SumLen({t \in Tasks : Active(t)}) = N

\* ---- C3 ----
\* C3: allocate(quantity) is all-or-nothing: an execution holds either zero
\* tokens or exactly `quantity`, and none waits for more tokens while
\* already holding some.
C3_AllOrNothing ==
    \A t \in Tasks :
        /\ Len(items[t]) \in {0, Quantity(t)}
        /\ (InAllocate(t) /\ Len(items[t]) < Quantity(t)) => items[t] = <<>>

\* one execution was granted a group of two at once while another, short of
\* tokens, waits empty-handed
C3_Witness ==
    \E t, u \in Tasks :
        /\ t # u
        /\ Quantity(t) = 2 /\ Len(items[t]) = 2 /\ pc[t] = "sleep"
        /\ pc[u] = "sleep" /\ items[u] = <<>> /\ Len(resources) < Quantity(u)
        /\ Len(resources) >= 1

\* ---- C4 ----
\* C4: a request for more tokens than the pool's total size fails fast: it
\* is rejected with an error and never waits in acquisition.
C4_OversizeFailsFast ==
    \A t \in Tasks : Quantity(t) > N => ~InAllocate(t)

\* ---- C5 ----
\* C5: whenever an execution that was granted tokens ends, for any reason,
\* all of its tokens have been returned to the pool.
C5_TokensReturnedOnEnd ==
    \A t \in Tasks : Ended(t) => items[t] = <<>>

\* ---- C6 ----
\* C6: if the pre-hook of one task raises, every sibling still runs to
\* COMPLETED and has its SUCCESS/FAIL status reported: once run() is over,
\* every sibling that could complete has done so.
C6_SiblingsComplete ==
    \A t, u \in Tasks :
        (/\ t # u
         /\ task[t].behaviour = "hook_raises" /\ pc[t] = "raised"
         /\ task[u].behaviour = "ok"
         /\ runState # "running")
        => (pc[u] = "done" /\ Reported(u))

\* ---- C7 ----
\* C7: run() hands control back to its caller only when every submitted
\* task has reached COMPLETED(SUCCESS|FAIL).
C7_RunEndsAfterAllCompleted ==
    runState # "running" =>
        \A t \in Tasks : pc[t] = "done" /\ status[t] \in {"SUCCESS", "FAIL"}

\* ---- C8 ----
\* C8: run() returns to the caller a full result set with exactly one result
\* (SUCCESS or FAIL) per submitted task.
C8_FullResultSet ==
    runState # "running" =>
        /\ runResult # None
        /\ DOMAIN runResult = Tasks
        /\ \A t \in Tasks : runResult[t] \in {"SUCCESS", "FAIL"} /\ reported[t] = 1

\* ---- C9 ----
\* C9: K tasks that each require 1 token, against a pool of K tokens, with
\* every subprocess spawned and terminating: eventually all K tasks are
\* completed, run() has ended and the pool holds the same K tokens as before.
C9_Setup ==
    /\ N = NumTasks
    /\ \A t \in Tasks : Quantity(t) = 1 /\ task[t].behaviour = "ok"

C9_PoolRestored ==
    /\ runState = "returned"
    /\ \A t \in Tasks : pc[t] = "done"
    /\ Len(resources) = N
    /\ SeqToSet(resources) = Tokens

C9_AllCompleteTokensBack == C9_Setup => <>C9_PoolRestored

\* the run of K one-token tasks is over with the K tokens back, in another
\* order than the caller's list
C9_Witness == C9_Setup /\ C9_PoolRestored /\ resources # cuda_list

\* ---- C10 ----
\* C10: when two tasks each require all N tokens, while one of them holds
\* its tokens the other has been granted none and has not begun its body
\* (pre-hook, spawn); the two are never both past acquisition at once.
C10_Serialized ==
    \A t, u \in Tasks :
        (/\ t # u
         /\ N >= 1 /\ Quantity(t) = N /\ Quantity(u) = N
         /\ items[t] # <<>>)
        => (/\ items[u] = <<>>
            /\ pc[u] \in {"pending", "sleep", "cancelled", "done"})

\* the second of two whole-pool tasks runs its subprocess, holding both
\* tokens, after the first has completed and released them
C10_Witness ==
    \E t, u \in Tasks :
        /\ t # u
        /\ N = 2 /\ Quantity(t) = 2 /\ Quantity(u) = 2
        /\ pc[t] = "done"
        /\ pc[u] = "running" /\ Len(items[u]) = 2

\* ---- C11 ----
\* C11: a task whose subprocess exited is reported SUCCESS if and only if
\* the exit code is 0, FAIL for every other code, whatever quantity it asked.
C11_StatusFromExitCode ==
    \A t \in Tasks :
        pc[t] = "done" =>
            /\ returncode[t] # <<>>
            /\ (status[t] = "SUCCESS") <=> (returncode[t][1] = 0)
            /\ (status[t] = "FAIL") <=> (returncode[t][1] # 0)

\* tasks of different quantities exited with the same code and got the same status
C11_Witness ==
    \E t, u \in Tasks, rc \in ExitCodes :
        /\ pc[t] = "done" /\ pc[u] = "done"
        /\ Quantity(t) = 1 /\ Quantity(u) = 2
        /\ returncode[t] = <<rc>> /\ returncode[u] = <<rc>>
        /\ rc # 0 /\ status[t] = "FAIL" /\ status[u] = "FAIL"

\* ---- C12 ----
\* C12: a completed task has written END_QUICKLY if and only if its elapsed
\* time is below the fast-exit threshold; at or above it, no sentinel.
C12_SentinelIffQuick ==
    \A t \in Tasks :
        /\ pc[t] = "done" =>
              /\ cost_time[t] # <<>>
              /\ end_quickly[t] <=> (cost_time[t][1] < FastExitThreshold)
        /\ pc[t] # "done" => ~end_quickly[t]

\* one task finished just below the threshold with the sentinel, one exactly
\* at the threshold without it
C12_Witness ==
    \E t, u \in Tasks :
        /\ pc[t] = "done" /\ pc[u] = "done"
        /\ cost_time[t] = <<FastExitThreshold - 1>> /\ end_quickly[t]
        /\ cost_time[u] = <<FastExitThreshold>> /\ ~end_quickly[u]

\* ---- C13 ----
\* C13: every version of full_description.json written before the
\* subprocess is spawned contains no pid, and the version on disk once the
\* task has completed contains the pid of its subprocess and an end time.
C13_PidOnlyAfterSpawn ==
    \A t \in Tasks :
        /\ proc_pid[t] = <<>> =>
              \A i \in 1..Len(full_description[t]) :
                  "pid" \notin DOMAIN full_description[t][i]
        /\ full_description[t] # <<>> => "pid" \notin DOMAIN full_description[t][1]
        /\ pc[t] = "done" =>
              /\ full_description[t] # <<>>
              /\ "pid" \in DOMAIN Last(full_description[t])
              /\ Last(full_description[t])["pid"] = proc_pid[t][1]
              /\ "end_time" \in DOMAIN Last(full_description[t])

\* a completed task wrote three versions: without pid, with pid, with pid
\* and end time
C13_Witness ==
    \E t \in Tasks :
        /\ pc[t] = "done"
        /\ Len(full_description[t]) = 3
        /\ "pid" \notin DOMAIN full_description[t][1]
        /\ "pid" \in DOMAIN full_description[t][2]
        /\ "end_time" \notin DOMAIN full_description[t][2]
        /\ {"pid", "end_time"} \subseteq DOMAIN full_description[t][3]

\* ---- C14 ----
\* C14: after the subprocess has exited, the post-run rewrite of
\* full_description.json contains the exit status together with the end time.
C14_ExitStatusRecorded ==
    \A t \in Tasks :
        pc[t] = "done" =>
            /\ "end_time" \in DOMAIN Last(full_description[t])
            /\ \E k \in {"status", "returncode", "exit_status", "exit_code"} :
                   k \in DOMAIN Last(full_description[t])

\* ---- C15 ----
\* C15: the environment a spawned subprocess receives is the task's declared
\* environment with only CUDA_VISIBLE_DEVICES overwritten, by the tokens the
\* execution holds, in grant order, joined by commas.
IsCommaJoined(str, its) ==
    /\ Len(str) = IF its = <<>> THEN 0 ELSE 2 * Len(its) - 1
    /\ \A i \in 1..Len(its) :
          /\ str[2 * i - 1] = ToString(its[i])
          /\ i < Len(its) => str[2 * i] = ","

C15_SpawnEnv ==
    \A t \in Tasks :
        spawn_env[t] # <<>> =>
            LET e == spawn_env[t][1]
                d == env_store[task_env[t]]
            IN  /\ DOMAIN e = DOMAIN d \cup {CUDA_VISIBLE_DEVICES}
                /\ \A k \in DOMAIN d \ {CUDA_VISIBLE_DEVICES} : e[k] = d[k]
                /\ pc[t] # "done" =>
                      /\ Len(items[t]) = Quantity(t)
                      /\ IsCommaJoined(e[CUDA_VISIBLE_DEVICES], items[t])

\* a subprocess runs on two tokens; its Task declared another selector value
C15_Witness ==
    \E t \in Tasks :
        /\ pc[t] = "running"
        /\ Len(items[t]) = 2
        /\ CUDA_VISIBLE_DEVICES \in DOMAIN env_store[task_env[t]]
        /\ env_store[task_env[t]][CUDA_VISIBLE_DEVICES] = <<"7">>
        /\ Len(spawn_env[t][1][CUDA_VISIBLE_DEVICES]) = 3
        /\ spawn_env[t][1][CUDA_VISIBLE_DEVICES][2] = ","

\* ---- C16 ----
\* C16: a pool of zero capacity is rejected at construction time, before any
\* task execution starts acquiring.
C16_EmptyPoolRejected ==
    N = 0 => \A t \in Tasks : pc[t] = "pending"

\* ---- C17 ----
\* C17: run() never mutates a Task: no step changes a Task's fields or the
\* mapping its env refers to, also when Tasks share the mapping.
C17_TaskNotMutated ==
    [][task' = task /\ task_env' = task_env /\ env_store' = env_store]_vars

\* two Tasks sharing one mapping both got their selector composed, with
\* different values, and the shared mapping still declares none
C17_Witness ==
    \E t, u \in Tasks :
        /\ t # u
        /\ task_env[t] = task_env[u]
        /\ spawn_env[t] # <<>> /\ spawn_env[u] # <<>>
        /\ spawn_env[t][1][CUDA_VISIBLE_DEVICES] # spawn_env[u][1][CUDA_VISIBLE_DEVICES]
        /\ CUDA_VISIBLE_DEVICES \notin DOMAIN env_store[task_env[t]]
        /\ runState = "returned"

\* ---- C19 ----
\* C19: the check-and-take step of allocate() never suspends: once the test
\* qsize() >= quantity passed, each of the quantity get() calls finds a
\* token, so no execution is ever left inside get() holding the lock.
C19_TakeNeverSuspends ==
    /\ lockOwner = NoTask
    /\ \A t \in Tasks : pc[t] # "get_wait"

\* a group of two was taken in one step from a pool another execution had
\* put a token back into, without the lock
C19_Witness ==
    \E t, u \in Tasks :
        /\ N = 2
        /\ Quantity(u) = 1 /\ pc[u] = "done"
        /\ Quantity(t) = 2 /\ pc[t] = "sleep" /\ Len(items[t]) = 2

\* ---- C20 ----
Acquiring(t) == InAllocate(t) /\ Len(items[t]) < Quantity(t)

HasStarted(t) ==
    \/ hook_calls[t] > 0
    \/ full_description[t] # <<>>
    \/ (proc_pid[t] # <<>> /\ returncode[t] = <<>>)

\* C20 (as stated): a task that has invoked its pre-hook, written any
\* provenance file, or has a live subprocess holds exactly cuda_quantity
\* tokens, and a task still PENDING or ACQUIRING holds none.
C20_StartedHoldsQuantity ==
    \A t \in Tasks :
        /\ HasStarted(t) => Len(items[t]) = Quantity(t)
        /\ (pc[t] = "pending" \/ Acquiring(t)) => items[t] = <<>>

\* C20 (amended): a task that has invoked its pre-hook, written any
\* provenance file, or has a live subprocess, and has not yet completed and
\* released its tokens, holds exactly cuda_quantity tokens, and a task still
\* PENDING or ACQUIRING holds none.
C20_StartedHoldsQuantityUntilDone ==
    \A t \in Tasks :
        /\ (HasStarted(t) /\ pc[t] # "done") => Len(items[t]) = Quantity(t)
        /\ (pc[t] = "pending" \/ Acquiring(t)) => items[t] = <<>>

\* a subprocess is alive on its two tokens while the other task, whose
\* request cannot be met, is still acquiring with none
C20_Witness ==
    \E t, u \in Tasks :
        /\ pc[t] = "running" /\ Quantity(t) = 2 /\ Len(items[t]) = 2
        /\ hook_calls[t] = 1 /\ Len(full_description[t]) = 2
        /\ Acquiring(u) /\ items[u] = <<>> /\ hook_calls[u] = 0

\* ---- C21 ----
IsPrefix(a, b) == Len(a) <= Len(b) /\ SubSeq(b, 1, Len(a)) = a

\* The lifecycle state a coroutine is in: 0 PENDING, 1 ACQUIRING,
\* 2 PREPARING, 3 RUNNING, 4 COMPLETED; 5 when it left by an exception or a
\* cancellation.
Phase(p, its, quantity) ==
    CASE p = "pending" -> 0
      [] p \in {"sleep", "get_wait"} /\ Len(its) < quantity -> 1
      [] p \in {"sleep", "get_wait"} /\ Len(its) >= quantity -> 2
      [] p \in {"spawning", "running", "exited"} -> 3
      [] p = "done" -> 4
      [] OTHER -> 5

\* C21: a task only moves forward through PENDING, ACQUIRING, PREPARING,
\* RUNNING, COMPLETED; the steps it has carried out are always a beginning of
\* the fixed order (tokens granted, pre-hook, pre-run write, spawn, pid
\* write, exit, post-run write, token release), so each happens at most once
\* and in that order; every step only adds to them; a COMPLETED task has
\* carried out all of them and takes no further step.
C21_StepsInOrder ==
    [][\A t \in Tasks :
          /\ Phase(pc[t], items[t], Quantity(t))
                <= Phase(pc'[t], items'[t], Quantity(t))
          /\ IsPrefix(steps[t], steps'[t])
          /\ IsPrefix(steps'[t], StepOrder)
          /\ pc'[t] = "done" => steps'[t] = StepOrder
          /\ pc[t] = "done" => (pc'[t] = "done" /\ steps'[t] = steps[t])
          /\ Phase(pc'[t], items'[t], Quantity(t)) <= 1 => steps'[t] = <<>>
      ]_vars

\* a task has gone through all eight steps and is COMPLETED while the other
\* is somewhere in the middle of them
C21_Witness ==
    \E t, u \in Tasks :
        /\ pc[t] = "done" /\ steps[t] = StepOrder
        /\ pc[u] = "running" /\ Len(steps[u]) = 5

\* ---- C22 ----
\* blocked in allocate() while the pool holds what the call asks for
SatisfiableWaiter(t) == Acquiring(t) /\ Len(resources) >= Quantity(t)

\* C22: no allocate(q) call stays blocked forever while the pool holds at
\* least q tokens from some point on; and the re-check of a blocked call
\* that finds q tokens in the pool grants it all q at once.
C22_ReleaseUnblocks ==
    /\ \A t \in Tasks : ~<>[]SatisfiableWaiter(t)
    /\ [][\A t \in Tasks :
             (SatisfiableWaiter(t) /\ Retry(t))
                 => (/\ Len(items'[t]) = Quantity(t)
                     /\ Len(resources') = Len(resources) - Quantity(t)
                     /\ steps'[t] = GrantSteps)
         ]_vars

\* two tasks want two of three tokens: the first ran and released, and the
\* second, which had to wait for that release, now holds its two
C22_Witness ==
    \E t, u \in Tasks :
        /\ N = 3 /\ Quantity(t) = 2 /\ Quantity(u) = 2
        /\ pc[u] = "done" /\ steps[u] = StepOrder
        /\ pc[t] = "sleep" /\ steps[t] = GrantSteps /\ Len(items[t]) = 2
        /\ Len(resources) = 1

\* ---- C23 ----
\* C23: a subprocess that cannot be spawned is a captured failure: in a
\* batch where no pre-hook raises, no task raises out of the run and none is
\* cancelled, run() does not raise, and a task whose spawn failed ends
\* COMPLETED with status FAIL.
C23_SpawnFailureCaptured ==
    (\A t \in Tasks : task[t].behaviour # "hook_raises")
        => /\ runState # "raised"
           /\ \A t \in Tasks :
                 /\ pc[t] \notin {"raised", "cancelled"}
                 /\ (task[t].behaviour = "spawn_fails" /\ pc[t] = "done")
                        => status[t] = "FAIL"

\* ---- C24 ----
\* every task asks for between 1 and N tokens, its pre-hook returns and its
\* subprocess is spawned (and, by fairness, exits)
C24_Setup ==
    \A t \in Tasks :
        /\ Quantity(t) >= 1 /\ Quantity(t) <= N
        /\ task[t].behaviour = "ok"

\* run() has returned, every task was granted its tokens and went through
\* all its steps, and the pool holds the N tokens of the caller's list
C24_Returned ==
    /\ runState = "returned"
    /\ \A t \in Tasks : steps[t] = StepOrder /\ items[t] = <<>>
    /\ Len(resources) = N
    /\ SeqToSet(resources) = Tokens

\* C24: in a batch whose tasks each ask for between 1 and N tokens (any mix
\* of sizes) and in which no step raises and every subprocess exits, every
\* task is eventually granted its tokens, and run() eventually returns with
\* all N tokens back in the pool: no task is left waiting for ever.
C24_NoDeadlockNoStarvation == C24_Setup => <>C24_Returned

\* a request for one token and a request for both tokens of the pool, in the
\* same batch, have both run and the two tokens are back
C24_Witness ==
    /\ C24_Setup /\ C24_Returned
    /\ N = 2
    /\ \E t, u \in Tasks : Quantity(t) = 1 /\ Quantity(u) = 2

\* ---- C25 ----
RunningJobs == {j \in Jobs : job_status[j] = "running"}

\* C25: in multirun.Launcher, every job whose job_status is "running" holds
\* exactly one token, one of cuda_list, that is not in the queue and that no
\* other job holds, so the "running" jobs are never more than len(cuda_list);
\* a job's status only moves pending -> running -> finished|failed; and a
\* job that has put its token back had set its final status before: what it
\* has done is always a beginning of get, "running", final status, put.
C25_RunningHoldsOneToken ==
    /\ [](\A j \in RunningJobs :
            /\ Len(cuda[j]) = 1
            /\ cuda[j][1] \in SeqToSet(legacy_cuda_list)
            /\ cuda[j][1] \notin SeqToSet(queue)
            /\ \A k \in Jobs \ {j} : cuda[k] # cuda[j])
    /\ [](Cardinality(RunningJobs) <= Len(legacy_cuda_list))
    /\ [](\A j \in Jobs :
            /\ IsPrefix(job_events[j], JobEventOrder)
            /\ job_pc[j] = "done"
                  => (/\ job_events[j] = JobEventOrder
                      /\ job_status[j] \in {"finished", "failed"}
                      /\ cuda[j] = <<>>))
    /\ [][\A j \in Jobs :
             job_status'[j] # job_status[j]
                 => \/ job_status[j] = "pending" /\ job_status'[j] = "running"
                    \/ /\ job_status[j] = "running"
                       /\ job_status'[j] \in {"finished", "failed"}
         ]_vars

\* as many jobs "running" as there are tokens, each on a token of its own,
\* one of them on the token a failed job has put back
C25_Witness ==
    /\ Len(legacy_cuda_list) = 2
    /\ Cardinality(RunningJobs) = 2
    /\ \E j \in Jobs : job_pc[j] = "done" /\ job_status[j] = "failed"

\* ---- C18 ----
\* C18: a Task constructed without an identifier (omitted or None) has the
\* rendering of its command as identifier: task.identifier == task.cmd_str().
C18_DefaultIdentifier ==
    (made.built /\ ctor.identifier.kind = "none")
        => made.identifier = CmdStr(ctor.cmd)
====
